---- MODULE Spec2Model ----
(***************************************************************************)
(* Model of near-sdk/src/promise.rs: the deferred promise graph            *)
(* (Promise, PromiseSingle, PromiseJoint, PromiseOrValue) and the calls it *)
(* makes on the host (the promise functions of crate::env).                *)
(*                                                                         *)
(* A Promise is an owned, non-Clone value: every PromiseSingle and         *)
(* PromiseJoint is reachable from exactly one Promise.  promises[n] is     *)
(* the n-th Promise created, flattened with the node its subtype holds;    *)
(* `dropped` records that the value has been moved into a method that      *)
(* consumed it and its destructor has run.                                 *)
(***************************************************************************)
EXTENDS Integers, Sequences, FiniteSets, TLC

VARIABLES promises, trace, next_index, panicked, output, pc, tmp

vars == <<promises, trace, next_index, panicked, output, pc, tmp>>

(* the variables of the scripted program SpecChain only *)
script == <<pc, tmp>>

(* ---- bounds ---- *)
MaxSize == 9

(* ---- inputs ---- *)
Accounts == {"a", "b"}
Amounts == {5}
Values == {7}
ChainAccounts == {"bob_near", "carol_near", "dave_near", "eva_near"}

(* Option::None of the RefCell<Option<PromiseIndex>> fields; a PromiseIndex is a u64 *)
None == -1

(* ---- enum PromiseAction (the variants the model draws) ---- *)
CreateAccount == [kind |-> "CreateAccount"]

Transfer(amount) == [kind |-> "Transfer", amount |-> amount]

(* ---- the host: crate::env, one trace entry per call ---- *)
Call(w, entry) == [w EXCEPT !.trace = Append(@, entry)]

promise_batch_create(w, account_id) ==
    [w |-> [Call(w, [op |-> "promise_batch_create", account_id |-> account_id,
                     res |-> w.next_index])
              EXCEPT !.next_index = @ + 1],
     res |-> w.next_index]

promise_batch_then(w, after, account_id) ==
    [w |-> [Call(w, [op |-> "promise_batch_then", after |-> after,
                     account_id |-> account_id, res |-> w.next_index])
              EXCEPT !.next_index = @ + 1],
     res |-> w.next_index]

promise_and(w, promise_a, promise_b) ==
    [w |-> [Call(w, [op |-> "promise_and", promise_a |-> promise_a,
                     promise_b |-> promise_b, res |-> w.next_index])
              EXCEPT !.next_index = @ + 1],
     res |-> w.next_index]

promise_return(w, promise_index) ==
    Call(w, [op |-> "promise_return", promise_index |-> promise_index])

promise_batch_action_create_account(w, promise_index) ==
    Call(w, [op |-> "promise_batch_action_create_account",
             promise_index |-> promise_index])

promise_batch_action_transfer(w, promise_index, amount) ==
    Call(w, [op |-> "promise_batch_action_transfer",
             promise_index |-> promise_index, amount |-> amount])

(* env::panic_str never returns: the call in progress is aborted *)
NoPanic == ""

panic_str(w, message) == [w EXCEPT !.panicked = message]

(* ---- PromiseAction::add ---- *)
PromiseAction_add(w, action, promise_index) ==
    CASE action.kind = "CreateAccount" ->
            promise_batch_action_create_account(w, promise_index)
      [] action.kind = "Transfer" ->
            promise_batch_action_transfer(w, promise_index, action.amount)

(* the loop over the actions, taken from the last action to the first *)
RECURSIVE Mut_AddActions_reversed(_, _, _, _)
Mut_AddActions_reversed(w, actions, k, promise_index) ==
    IF k > Len(actions) THEN w
    ELSE Mut_AddActions_reversed(
            PromiseAction_add(w, actions[Len(actions) + 1 - k], promise_index),
            actions, k + 1, promise_index)

(* for action in actions_lock.iter() { action.add(promise_index) } *)
RECURSIVE AddActions(_, _, _, _)
AddActions(w, actions, k, promise_index) ==
    IF k > Len(actions) THEN w
    ELSE AddActions(PromiseAction_add(w, actions[k], promise_index),
                    actions, k + 1, promise_index)

(* PromiseSingle::construct_recursively that never takes the `after` branch *)
Mut_PromiseSingle_ignores_after(w, n) ==
    LET x == w.promises[n] IN
    IF x.promise_index # None THEN [w |-> w, res |-> x.promise_index]
    ELSE LET b == promise_batch_create(w, x.account_id)
             w1 == AddActions(b.w, x.actions, 1, b.res)
         IN [w |-> [w1 EXCEPT !.promises[n].promise_index = b.res],
             res |-> b.res]

(* PromiseSingle::construct_recursively without the early return on a      *)
(* promise_index that is already computed                                  *)
Mut_PromiseSingle_not_memoized(w, n) ==
    LET x == w.promises[n]
        b == IF x.after # None
             THEN promise_batch_then(w, x.after, x.account_id)
             ELSE promise_batch_create(w, x.account_id)
        w1 == AddActions(b.w, x.actions, 1, b.res)
    IN [w |-> [w1 EXCEPT !.promises[n].promise_index = b.res], res |-> b.res]

(* ---- PromiseSingle::construct_recursively ---- *)
PromiseSingle_construct_recursively(w, n) ==
    LET x == w.promises[n] IN
    IF x.promise_index # None THEN [w |-> w, res |-> x.promise_index]
    ELSE LET b == IF x.after # None
                  THEN promise_batch_then(w, x.after, x.account_id)
                  ELSE promise_batch_create(w, x.account_id)
             w1 == AddActions(b.w, x.actions, 1, b.res)
         IN [w |-> [w1 EXCEPT !.promises[n].promise_index = b.res],
             res |-> b.res]

(* PromiseJoint::construct_recursively without the early return on a       *)
(* promise_index that is already computed                                  *)
Mut_PromiseJoint_not_memoized(w, n) ==
    LET r == promise_and(w, w.promises[n].promise_a, w.promises[n].promise_b)
    IN [w |-> [r.w EXCEPT !.promises[n].promise_index = r.res], res |-> r.res]

(* ---- PromiseJoint::construct_recursively ---- *)
PromiseJoint_construct_recursively(w, n) ==
    LET x == w.promises[n] IN
    IF x.promise_index # None THEN [w |-> w, res |-> x.promise_index]
    ELSE LET r == promise_and(w, x.promise_a, x.promise_b)
         IN [w |-> [r.w EXCEPT !.promises[n].promise_index = r.res],
             res |-> r.res]

(* ---- Promise::construct_recursively ---- *)
Promise_construct_recursively(w, n) ==
    LET r == IF w.promises[n].subtype = "Single"
             THEN PromiseSingle_construct_recursively(w, n)
             ELSE PromiseJoint_construct_recursively(w, n)
    IN IF r.w.promises[n].should_return
       THEN [w |-> promise_return(r.w, r.res), res |-> r.res]
       ELSE r

(* a destructor that only releases the promise, without constructing it *)
Mut_Promise_drop_forgets(w, n) == [w EXCEPT !.promises[n].dropped = TRUE]

(* ---- impl Drop for Promise ---- *)
Promise_drop(w, n) ==
    [Promise_construct_recursively(w, n).w EXCEPT !.promises[n].dropped = TRUE]

(* ---- Promise::new_with_return ---- *)
Promise_new_with_return(w, account_id) ==
    [w |-> [w EXCEPT !.promises = Append(@,
              [subtype |-> "Single", account_id |-> account_id, actions |-> <<>>,
               after |-> None, promise_index |-> None,
               should_return |-> FALSE, dropped |-> FALSE])],
     res |-> Len(w.promises) + 1]

(* add_action on a joint promise: the destructor of the consumed promise    *)
(* runs before the panic takes effect                                      *)
Mut_Promise_add_action_drops(w, n, action) ==
    IF w.promises[n].subtype = "Single"
    THEN [w |-> [w EXCEPT !.promises[n].actions = Append(@, action)], res |-> n]
    ELSE [w |-> panic_str(Promise_drop(w, n),
                          "Cannot add action to a joint promise."),
          res |-> None]

(* add_action that inserts the action at the head of the list *)
Mut_Promise_add_action_prepends(w, n, action) ==
    IF w.promises[n].subtype = "Single"
    THEN [w |-> [w EXCEPT !.promises[n].actions = <<action>> \o @], res |-> n]
    ELSE [w |-> panic_str(w, "Cannot add action to a joint promise."),
          res |-> None]

(* ---- Promise::add_action ---- *)
Promise_add_action(w, n, action) ==
    IF w.promises[n].subtype = "Single"
    THEN [w |-> [w EXCEPT !.promises[n].actions = Append(@, action)], res |-> n]
    ELSE [w |-> panic_str(w, "Cannot add action to a joint promise."),
          res |-> None]

(* and whose joint inherits the should_return flag of its operands *)
Mut_Promise_and_inherits_return(w, self, other) ==
    LET a == Promise_construct_recursively(w, self)
        b == Promise_construct_recursively(a.w, other)
        w1 == [b.w EXCEPT !.promises = Append(@,
                 [subtype |-> "Joint", promise_a |-> a.res, promise_b |-> b.res,
                  promise_index |-> None,
                  should_return |-> w.promises[self].should_return
                                      \/ w.promises[other].should_return,
                  dropped |-> FALSE])]
    IN [w |-> Promise_drop(Promise_drop(w1, other), self),
        res |-> Len(w.promises) + 1]

(* and that evaluates the promise_b field before the promise_a field *)
Mut_Promise_and_other_first(w, self, other) ==
    LET b == Promise_construct_recursively(w, other)
        a == Promise_construct_recursively(b.w, self)
        w1 == [a.w EXCEPT !.promises = Append(@,
                 [subtype |-> "Joint", promise_a |-> a.res, promise_b |-> b.res,
                  promise_index |-> None,
                  should_return |-> FALSE, dropped |-> FALSE])]
    IN [w |-> Promise_drop(Promise_drop(w1, other), self),
        res |-> Len(w.promises) + 1]

(* and that constructs the joint it has just built *)
Mut_Promise_and_constructs_joint(w, self, other) ==
    LET a == Promise_construct_recursively(w, self)
        b == Promise_construct_recursively(a.w, other)
        w1 == [b.w EXCEPT !.promises = Append(@,
                 [subtype |-> "Joint", promise_a |-> a.res, promise_b |-> b.res,
                  promise_index |-> None,
                  should_return |-> FALSE, dropped |-> FALSE])]
        w2 == Promise_construct_recursively(w1, Len(w.promises) + 1).w
    IN [w |-> Promise_drop(Promise_drop(w2, other), self),
        res |-> Len(w.promises) + 1]

(* ---- Promise::and: both operands are constructed, the joint is built, and  *)
(* the two consumed parameters are dropped in reverse declaration order ---- *)
Promise_and(w, self, other) ==
    LET a == Promise_construct_recursively(w, self)
        b == Promise_construct_recursively(a.w, other)
        w1 == [b.w EXCEPT !.promises = Append(@,
                 [subtype |-> "Joint", promise_a |-> a.res, promise_b |-> b.res,
                  promise_index |-> None,
                  should_return |-> FALSE, dropped |-> FALSE])]
    IN [w |-> Promise_drop(Promise_drop(w1, other), self),
        res |-> Len(w.promises) + 1]

(* then on a borrowed self: self is constructed but its destructor does *)
(* not run, the caller still holds it                                   *)
Mut_Promise_then_keeps_self(w, self, other) ==
    IF w.promises[other].subtype = "Single"
    THEN IF w.promises[other].after # None
         THEN [w |-> panic_str(w,
                  "Cannot callback promise which is already scheduled after another"),
               res |-> None]
         ELSE LET c == Promise_construct_recursively(w, self)
              IN [w |-> [c.w EXCEPT !.promises[other].after = c.res],
                  res |-> other]
    ELSE [w |-> panic_str(w, "Cannot callback joint promise."), res |-> None]

(* then that constructs self before it looks at `other` *)
Mut_Promise_then_constructs_first(w, self, other) ==
    LET c == Promise_construct_recursively(w, self) IN
    IF w.promises[other].subtype = "Single"
    THEN IF w.promises[other].after # None
         THEN [w |-> panic_str(c.w,
                  "Cannot callback promise which is already scheduled after another"),
               res |-> None]
         ELSE [w |-> Promise_drop(
                       [c.w EXCEPT !.promises[other].after = c.res], self),
               res |-> other]
    ELSE [w |-> panic_str(c.w, "Cannot callback joint promise."), res |-> None]

(* then that constructs `other` as well, once its `after` is set *)
Mut_Promise_then_constructs_other(w, self, other) ==
    IF w.promises[other].subtype = "Single"
    THEN IF w.promises[other].after # None
         THEN [w |-> panic_str(w,
                  "Cannot callback promise which is already scheduled after another"),
               res |-> None]
         ELSE LET c == Promise_construct_recursively(w, self)
                  w1 == Promise_drop(
                          [c.w EXCEPT !.promises[other].after = c.res], self)
              IN [w |-> Promise_construct_recursively(w1, other).w,
                  res |-> other]
    ELSE [w |-> panic_str(w, "Cannot callback joint promise."), res |-> None]

(* then without the check that `other` is not yet scheduled after another *)
Mut_Promise_then_reparents(w, self, other) ==
    IF w.promises[other].subtype = "Single"
    THEN LET c == Promise_construct_recursively(w, self)
         IN [w |-> Promise_drop(
                     [c.w EXCEPT !.promises[other].after = c.res], self),
             res |-> other]
    ELSE [w |-> panic_str(w, "Cannot callback joint promise."), res |-> None]

(* ---- Promise::then: `other` is returned, `self` is dropped on return ---- *)
Promise_then(w, self, other) ==
    IF w.promises[other].subtype = "Single"
    THEN IF w.promises[other].after # None
         THEN [w |-> panic_str(w,
                  "Cannot callback promise which is already scheduled after another"),
               res |-> None]
         ELSE LET c == Promise_construct_recursively(w, self)
              IN [w |-> Promise_drop(
                          [c.w EXCEPT !.promises[other].after = c.res], self),
                  res |-> other]
    ELSE [w |-> panic_str(w, "Cannot callback joint promise."), res |-> None]

(* as_return that constructs the promise as soon as it is marked *)
Mut_Promise_as_return_constructs(w, n) ==
    [w |-> Promise_construct_recursively(
              [w EXCEPT !.promises[n].should_return = TRUE], n).w,
     res |-> n]

(* ---- Promise::as_return ---- *)
Promise_as_return(w, n) ==
    [w |-> [w EXCEPT !.promises[n].should_return = TRUE], res |-> n]

(* a serializer that constructs the promise itself after setting the flag *)
Mut_Promise_serialize_constructs(w, n) ==
    Promise_construct_recursively(
        [w EXCEPT !.promises[n].should_return = TRUE], n).w

(* ---- serde::Serialize / borsh::BorshSerialize for Promise: the flag is *)
(* set and no bytes are written ---- *)
Promise_serialize(w, n) == [w EXCEPT !.promises[n].should_return = TRUE]

(* ---- BorshSerialize for PromiseOrValue: v is <<"Promise", n>> or       *)
(* <<"Value", x>>; only an actual value is written to the writer ---- *)
PromiseOrValue_serialize(w, v) ==
    IF v[1] = "Value"
    THEN [w EXCEPT !.output = Append(@, v[2])]
    ELSE Promise_serialize(w, v[2])

(* ---- the state as one value, and its write-back ---- *)
World ==
    [promises |-> promises, trace |-> trace, next_index |-> next_index,
     panicked |-> panicked, output |-> output]

Commit(w) ==
    /\ promises' = w.promises
    /\ trace' = w.trace
    /\ next_index' = w.next_index
    /\ panicked' = w.panicked
    /\ output' = w.output

IsLive(n) == ~promises[n].dropped

Live == {n \in DOMAIN promises : IsLive(n)}

(* what the bound counts, the size of the program run so far: 2 for every  *)
(* promise created (by new or by and), 1 for every action appended, 1 for  *)
(* every promise marked as the return value, 1 for every promise created   *)
(* on an account other than the first, 1 for every value written           *)
RECURSIVE ActionsAdded(_)
ActionsAdded(n) ==
    IF n = 0 THEN 0
    ELSE ActionsAdded(n - 1)
            + (IF promises[n].subtype = "Single" THEN Len(promises[n].actions) ELSE 0)

Marked == {n \in DOMAIN promises : promises[n].should_return}

OtherAccount ==
    {n \in DOMAIN promises :
        promises[n].subtype = "Single" /\ promises[n].account_id # "a"}

Size ==
    2 * Len(promises) + ActionsAdded(Len(promises))
        + Cardinality(Marked) + Cardinality(OtherAccount) + Len(output)

NewCost(account_id) == IF account_id = "a" THEN 2 ELSE 3

MayMark(n) == n \in Marked \/ Size < MaxSize

Init ==
    /\ promises = <<>>
    /\ trace = <<>>
    /\ next_index = 0
    /\ panicked = NoPanic
    /\ output = <<>>
    /\ pc = 0
    /\ tmp = 0

(* ---- the operations a contract method can perform on its promises ---- *)
DoNew(account_id) ==
    /\ panicked = NoPanic
    /\ Commit(Promise_new_with_return(World, account_id).w)

DoAddAction(n, action) ==
    /\ panicked = NoPanic
    /\ IsLive(n)
    /\ Commit(Promise_add_action(World, n, action).w)

DoThen(self, other) ==
    /\ panicked = NoPanic
    /\ self # other /\ IsLive(self) /\ IsLive(other)
    /\ Commit(Promise_then(World, self, other).w)

DoAnd(self, other) ==
    /\ panicked = NoPanic
    /\ self # other /\ IsLive(self) /\ IsLive(other)
    /\ Commit(Promise_and(World, self, other).w)

DoAsReturn(n) ==
    /\ panicked = NoPanic
    /\ IsLive(n)
    /\ Commit(Promise_as_return(World, n).w)

DoSerialize(n) ==
    /\ panicked = NoPanic
    /\ IsLive(n)
    /\ Commit(Promise_serialize(World, n))

DoSerializePromiseOrValue(v) ==
    /\ panicked = NoPanic
    /\ v[1] = "Promise" => IsLive(v[2])
    /\ Commit(PromiseOrValue_serialize(World, v))

DoDrop(n) ==
    /\ panicked = NoPanic
    /\ IsLive(n)
    /\ Commit(Promise_drop(World, n))

(* the action-adding methods the model draws: create_account, transfer; *)
(* every other one is the same call of add_action with its own variant  *)
MethodActions == {CreateAccount} \cup {Transfer(amount) : amount \in Amounts}

(* ---- any program: the operations in any order, on any live promises ---- *)
New ==
    \E account_id \in Accounts :
        /\ Size + NewCost(account_id) <= MaxSize
        /\ DoNew(account_id)
        /\ UNCHANGED script

AddAction ==
    /\ Size < MaxSize
    /\ \E n \in DOMAIN promises, action \in MethodActions :
          DoAddAction(n, action) /\ UNCHANGED script

Then ==
    \E self \in DOMAIN promises, other \in DOMAIN promises :
        DoThen(self, other) /\ UNCHANGED script

And ==
    /\ Size + 2 <= MaxSize
    /\ \E self \in DOMAIN promises, other \in DOMAIN promises :
          DoAnd(self, other) /\ UNCHANGED script

AsReturn ==
    \E n \in DOMAIN promises :
        MayMark(n) /\ DoAsReturn(n) /\ UNCHANGED script

Serialize ==
    \E n \in DOMAIN promises :
        MayMark(n) /\ DoSerialize(n) /\ UNCHANGED script

SerializePromiseOrValue ==
    \E v \in ({"Promise"} \X DOMAIN promises) \cup ({"Value"} \X Values) :
        /\ IF v[1] = "Promise" THEN MayMark(v[2]) ELSE Size < MaxSize
        /\ DoSerializePromiseOrValue(v)
        /\ UNCHANGED script

Drop == \E n \in DOMAIN promises : DoDrop(n) /\ UNCHANGED script

Next ==
    \/ New
    \/ AddAction
    \/ Then
    \/ And
    \/ AsReturn
    \/ Serialize
    \/ SerializePromiseOrValue
    \/ Drop

Spec == Init /\ [][Next]_vars

(* ---- the program of the doc comment of Promise::then:                   *)
(*   let p1 = Promise::new(..).create_account();  ... p2, p3, p4 alike     *)
(*   p1.then(p2).and(p3).then(p4);                                         *)
(* on any four accounts; the temporary the statement yields is dropped     *)
(* at its end ---- *)
ChainNew ==
    /\ pc \in {0, 2, 4, 6}
    /\ \E account_id \in ChainAccounts :
          /\ DoNew(account_id)
          /\ tmp' = Promise_new_with_return(World, account_id).res
    /\ pc' = pc + 1

ChainCreateAccount ==
    /\ pc \in {1, 3, 5, 7}
    /\ DoAddAction(tmp, CreateAccount)
    /\ tmp' = Promise_add_action(World, tmp, CreateAccount).res
    /\ pc' = pc + 1

ChainThen ==
    /\ \/ /\ pc = 8
          /\ DoThen(1, 2)
          /\ tmp' = Promise_then(World, 1, 2).res
       \/ /\ pc = 10
          /\ DoThen(tmp, 4)
          /\ tmp' = Promise_then(World, tmp, 4).res
    /\ pc' = pc + 1

ChainAnd ==
    /\ pc = 9
    /\ DoAnd(tmp, 3)
    /\ tmp' = Promise_and(World, tmp, 3).res
    /\ pc' = pc + 1

ChainDrop ==
    /\ pc = 11
    /\ DoDrop(tmp)
    /\ tmp' = 0
    /\ pc' = pc + 1

ChainNext ==
    \/ ChainNew
    \/ ChainCreateAccount
    \/ ChainThen
    \/ ChainAnd
    \/ ChainDrop

SpecChain == Init /\ [][ChainNext]_vars

(* ---- reading the trace of host calls ---- *)
BeginOps == {"promise_batch_create", "promise_batch_then"}

RegOps == BeginOps \cup {"promise_and"}

ActionOps ==
    {"promise_batch_action_create_account", "promise_batch_action_transfer"}

(* the positions of the calls that returned index i, that applied an action *)
(* to it, that marked it as the return value                               *)
RegPos(i) == {k \in DOMAIN trace : trace[k].op \in RegOps /\ trace[k].res = i}

ActionPos(i) ==
    {k \in DOMAIN trace :
        trace[k].op \in ActionOps /\ trace[k].promise_index = i}

ReturnPos(i) ==
    {k \in DOMAIN trace :
        trace[k].op = "promise_return" /\ trace[k].promise_index = i}

Registered(n) == promises[n].promise_index # None

Singles == {n \in DOMAIN promises : promises[n].subtype = "Single"}

Joints == {n \in DOMAIN promises : promises[n].subtype = "Joint"}

(* C1: exactly-once registration. Every promise_batch_create,              *)
(* promise_batch_then and promise_and call in the trace returned the index *)
(* memoized by one promise of the matching subtype, no two promises share  *)
(* an index and a registered promise has exactly one such call; the action *)
(* calls on a registered batch are no more than its accumulated actions    *)
(* and none is made on any other index; every construct_recursively call   *)
(* of a promise returned its memoized index (seen in the promise_return    *)
(* calls of a marked promise, one per call).                               *)
C1_ExactlyOnce ==
    /\ \A k \in DOMAIN trace :
          trace[k].op \in RegOps =>
            \E n \in DOMAIN promises :
                /\ promises[n].promise_index = trace[k].res
                /\ (promises[n].subtype = "Joint") <=> (trace[k].op = "promise_and")
    /\ \A n \in DOMAIN promises :
          Registered(n) => Cardinality(RegPos(promises[n].promise_index)) = 1
    /\ \A n \in DOMAIN promises, m \in DOMAIN promises :
          n # m /\ Registered(n) => promises[n].promise_index # promises[m].promise_index
    /\ \A k \in DOMAIN trace :
          trace[k].op \in ActionOps =>
            \E n \in Singles : promises[n].promise_index = trace[k].promise_index
    /\ \A n \in Singles :
          Registered(n) =>
            Cardinality(ActionPos(promises[n].promise_index)) <= Len(promises[n].actions)
    /\ \A k \in DOMAIN trace :
          trace[k].op = "promise_return" =>
            \E n \in DOMAIN promises :
                /\ promises[n].should_return
                /\ promises[n].promise_index = trace[k].promise_index

(* a batch with actions was constructed twice (marked, it reported its index *)
(* twice) and registered once, and a joint promise is registered            *)
C1_Witness ==
    /\ \E n \in Singles :
          /\ promises[n].actions # <<>>
          /\ Registered(n)
          /\ Cardinality(ReturnPos(promises[n].promise_index)) = 2
          /\ Cardinality(RegPos(promises[n].promise_index)) = 1
          /\ Cardinality(ActionPos(promises[n].promise_index)) = Len(promises[n].actions)
    /\ \E j \in Joints : Registered(j)

(* C2: a promise marked as the return value and then finalized has exactly *)
(* one promise_return call, with its own index.                            *)
C2_ExactlyOneReturn ==
    \A n \in DOMAIN promises :
        promises[n].should_return /\ promises[n].dropped =>
            /\ Registered(n)
            /\ Cardinality(ReturnPos(promises[n].promise_index)) = 1

(* the calls that register index i or apply an action to it, in trace order *)
CallsOn(indices) ==
    SelectSeq(trace, LAMBDA e :
        \/ e.op \in RegOps /\ e.res \in indices
        \/ e.op \in ActionOps /\ e.promise_index \in indices)

(* C3: a batch whose predecessor was set by then is registered by          *)
(* promise_batch_then(P, its own account), never promise_batch_create, P   *)
(* being the index memoized by another, registered promise; that call      *)
(* comes after the call that returned P and after every action call on P,  *)
(* and P has by then received all the actions of its batch.  For           *)
(* new(x).create_account() then new(y).create_account() the calls are      *)
(* exactly create(x)->i1, create_account(i1), then(i1, y)->i2,             *)
(* create_account(i2).                                                     *)
C3_ThenAfterPredecessor ==
    /\ \A k \in DOMAIN trace :
          trace[k].op = "promise_batch_then" =>
            /\ \E j \in 1..(k - 1) :
                  trace[j].op \in RegOps /\ trace[j].res = trace[k].after
            /\ \A j \in ActionPos(trace[k].after) : j < k
            /\ \A m \in Singles :
                  promises[m].promise_index = trace[k].after =>
                    Cardinality(ActionPos(trace[k].after)) = Len(promises[m].actions)
    /\ \A n \in Singles :
          /\ promises[n].after # None =>
                \E m \in DOMAIN promises :
                    m # n /\ promises[m].promise_index = promises[n].after
          /\ Registered(n) =>
                \A k \in RegPos(promises[n].promise_index) :
                    trace[k] =
                        IF promises[n].after # None
                        THEN [op |-> "promise_batch_then",
                              after |-> promises[n].after,
                              account_id |-> promises[n].account_id,
                              res |-> promises[n].promise_index]
                        ELSE [op |-> "promise_batch_create",
                              account_id |-> promises[n].account_id,
                              res |-> promises[n].promise_index]
    /\ \A h1 \in Singles, h2 \in Singles :
          /\ promises[h1].after = None /\ Registered(h1)
          /\ promises[h2].after = promises[h1].promise_index /\ Registered(h2)
          /\ promises[h1].actions = <<CreateAccount>>
          /\ promises[h2].actions = <<CreateAccount>>
          => LET i1 == promises[h1].promise_index
                 i2 == promises[h2].promise_index
             IN CallsOn({i1, i2}) =
                  << [op |-> "promise_batch_create",
                      account_id |-> promises[h1].account_id, res |-> i1],
                     [op |-> "promise_batch_action_create_account",
                      promise_index |-> i1],
                     [op |-> "promise_batch_then", after |-> i1,
                      account_id |-> promises[h2].account_id, res |-> i2],
                     [op |-> "promise_batch_action_create_account",
                      promise_index |-> i2] >>

(* h1 = new(a).create_account(), h2 = new(b).create_account(), h1.then(h2), *)
(* finalized: the four calls of the scenario and nothing else              *)
C3_Witness ==
    /\ Len(promises) = 2
    /\ promises[2].dropped
    /\ trace =
          << [op |-> "promise_batch_create", account_id |-> "a", res |-> 0],
             [op |-> "promise_batch_action_create_account", promise_index |-> 0],
             [op |-> "promise_batch_then", after |-> 0, account_id |-> "b",
              res |-> 1],
             [op |-> "promise_batch_action_create_account", promise_index |-> 1] >>

(* index i was fully registered before position k of the trace: the call   *)
(* that returned it and every action call on it come earlier, and a batch  *)
(* has received all its actions                                            *)
FullyRegisteredBefore(i, k) ==
    /\ \E j \in 1..(k - 1) : trace[j].op \in RegOps /\ trace[j].res = i
    /\ \A j \in ActionPos(i) : j < k
    /\ \A m \in Singles :
          promises[m].promise_index = i =>
            Cardinality(ActionPos(i)) = Len(promises[m].actions)

C4_OperandsBeforeJoin ==
    /\ \A k \in DOMAIN trace :
          trace[k].op = "promise_and" =>
            /\ \E j \in Joints : promises[j].promise_index = trace[k].res
            /\ FullyRegisteredBefore(trace[k].promise_a, k)
            /\ FullyRegisteredBefore(trace[k].promise_b, k)
    /\ \A j \in Joints :
          /\ \E a \in DOMAIN promises, b \in DOMAIN promises :
                /\ a # b /\ a # j /\ b # j
                /\ Registered(a) /\ promises[a].promise_index = promises[j].promise_a
                /\ Registered(b) /\ promises[b].promise_index = promises[j].promise_b
          /\ FullyRegisteredBefore(promises[j].promise_a, Len(trace) + 1)
          /\ FullyRegisteredBefore(promises[j].promise_b, Len(trace) + 1)
          /\ Registered(j) =>
                \E k \in DOMAIN trace :
                    /\ RegPos(promises[j].promise_index) = {k}
                    /\ trace[k] = [op |-> "promise_and",
                                   promise_a |-> promises[j].promise_a,
                                   promise_b |-> promises[j].promise_b,
                                   res |-> promises[j].promise_index]

C4_AndStep ==
    \A self \in DOMAIN promises, other \in DOMAIN promises :
        DoAnd(self, other) =>
            /\ Len(promises') = Len(promises) + 1
            /\ promises'[Len(promises')].subtype = "Joint"
            /\ promises'[Len(promises')].promise_a = promises'[self].promise_index
            /\ promises'[Len(promises')].promise_b = promises'[other].promise_index

(* C4: for every and(a, b) the joint stores the indices of a and of b, both *)
(* operands are fully registered when and returns and before the           *)
(* promise_and call of the joint, and that call is made exactly once, with *)
(* those two indices.                                                      *)
C4_JoinAfterOperands == [][C4_AndStep /\ C4_OperandsBeforeJoin']_vars

(* new(a).create_account() and new(b).create_account(), joined and          *)
(* finalized: both batches, then the one promise_and over their indices    *)
C4_Witness ==
    /\ Len(promises) = 3
    /\ promises[3].dropped
    /\ trace =
          << [op |-> "promise_batch_create", account_id |-> "a", res |-> 0],
             [op |-> "promise_batch_action_create_account", promise_index |-> 0],
             [op |-> "promise_batch_create", account_id |-> "b", res |-> 1],
             [op |-> "promise_batch_action_create_account", promise_index |-> 1],
             [op |-> "promise_and", promise_a |-> 0, promise_b |-> 1, res |-> 2] >>

(* host call e applies `action` to index i *)
Applies(e, action, i) ==
    CASE action.kind = "CreateAccount" ->
            e = [op |-> "promise_batch_action_create_account", promise_index |-> i]
      [] action.kind = "Transfer" ->
            e = [op |-> "promise_batch_action_transfer", promise_index |-> i,
                 amount |-> action.amount]

(* C5: a registered batch owns one contiguous block of the trace: its      *)
(* promise_batch_create (no predecessor) or promise_batch_then             *)
(* (predecessor set) call, then one action call per accumulated action, in *)
(* insertion order, on the index that call returned; it has no other       *)
(* action call.                                                            *)
C5_BatchBlock ==
    \A n \in Singles :
        Registered(n) =>
            LET i == promises[n].promise_index
                actions == promises[n].actions
            IN \E k \in DOMAIN trace :
                /\ trace[k].op =
                      (IF promises[n].after # None
                       THEN "promise_batch_then" ELSE "promise_batch_create")
                /\ trace[k].res = i
                /\ k + Len(actions) <= Len(trace)
                /\ \A a \in 1..Len(actions) : Applies(trace[k + a], actions[a], i)
                /\ ActionPos(i) = (k + 1)..(k + Len(actions))

(* new(a).create_account().transfer(5), finalized *)
C5_Witness ==
    /\ Len(promises) = 1
    /\ promises[1].dropped
    /\ trace =
          << [op |-> "promise_batch_create", account_id |-> "a", res |-> 0],
             [op |-> "promise_batch_action_create_account", promise_index |-> 0],
             [op |-> "promise_batch_action_transfer", promise_index |-> 0,
              amount |-> 5] >>

AddFullAccessKey == [kind |-> "AddFullAccessKey", public_key |-> "pk", nonce |-> 0]

C6_Step ==
    \A n \in Joints, action \in MethodActions \cup {AddFullAccessKey} :
        DoAddAction(n, action) =>
            /\ panicked' = "Cannot add action to a joint promise."
            /\ trace' = trace
            /\ next_index' = next_index
            /\ promises' = promises

(* C6: an action-adding method called on a promise that wraps a joint ends *)
(* in the panic "Cannot add action to a joint promise." and that call      *)
(* makes no host call: the trace, the host's next index and every promise  *)
(* (the joint stays unregistered) are as before the call.                  *)
C6_NoActionOnJoint == [][C6_Step]_vars

(* the panic of add_action, with the joint returned by and still unregistered *)
C6_Witness ==
    /\ panicked = "Cannot add action to a joint promise."
    /\ \E j \in Joints : ~promises[j].dropped /\ ~Registered(j)
    /\ \A k \in DOMAIN trace : trace[k].op # "promise_and"

IllegalNext(other) ==
    IF promises[other].subtype = "Joint" THEN TRUE
    ELSE promises[other].after # None

C7_Step ==
    \A self \in DOMAIN promises, other \in DOMAIN promises :
        DoThen(self, other) =>
            /\ (panicked' # NoPanic) <=> IllegalNext(other)
            /\ ~IllegalNext(other) =>
                  /\ Promise_then(World, self, other).res = other
                  /\ ~promises'[other].dropped
                  /\ promises'[other].after = promises'[self].promise_index
                  /\ promises'[self].dropped

(* C7: then(self, next) panics exactly when next wraps a joint or a batch  *)
(* whose `after` is already set; otherwise it returns next, still live,    *)
(* with self's index as its predecessor.                                   *)
C7_ThenPanicsIffIllegal == [][C7_Step]_vars

(* c.then(a.then(b)): the inner then succeeded, the outer one panicked *)
C7_Witness ==
    /\ panicked = "Cannot callback promise which is already scheduled after another"
    /\ \E n \in Singles : ~promises[n].dropped /\ promises[n].after # None
    /\ Cardinality(Live) >= 2

(* C8: a promise whose lifetime has ended is registered, so once every     *)
(* promise has been dropped every batch and every joint ever created has   *)
(* its index memoized and its one registration call in the trace.          *)
C8_DroppedIsRegistered ==
    \A n \in DOMAIN promises :
        promises[n].dropped =>
            /\ Registered(n)
            /\ Cardinality(RegPos(promises[n].promise_index)) = 1

(* a run without panic, every promise dropped: a joint and a batch that was *)
(* never combined nor marked                                               *)
C8_Witness ==
    /\ panicked = NoPanic
    /\ Live = {}
    /\ Joints # {}
    /\ \E n \in Singles :
          /\ promises[n].after = None /\ ~promises[n].should_return
          /\ \A m \in Singles : promises[m].after # promises[n].promise_index
          /\ \A j \in Joints :
                promises[n].promise_index
                    \notin {promises[j].promise_a, promises[j].promise_b}

C9_Step ==
    /\ \A n \in DOMAIN promises :
          DoSerialize(n) \/ DoSerializePromiseOrValue(<<"Promise", n>>) =>
            /\ promises'[n].should_return
            /\ promises' = [promises EXCEPT ![n].should_return = TRUE]
            /\ trace' = trace
            /\ next_index' = next_index
    /\ \A x \in Values :
          DoSerializePromiseOrValue(<<"Value", x>>) =>
            /\ output' = Append(output, x)
            /\ trace' = trace
            /\ next_index' = next_index
            /\ promises' = promises
    /\ \A n \in DOMAIN promises :
          DoDrop(n) /\ promises[n].should_return =>
            /\ promises'[n].promise_index # None
            /\ Cardinality({k \in DOMAIN trace' :
                    /\ trace'[k].op \in RegOps
                    /\ trace'[k].res = promises'[n].promise_index}) = 1
            /\ trace'[Len(trace')] =
                    [op |-> "promise_return",
                     promise_index |-> promises'[n].promise_index]
            /\ Cardinality({k \in DOMAIN trace' :
                    trace'[k].op = "promise_return"}) =
                 Cardinality({k \in DOMAIN trace :
                    trace[k].op = "promise_return"}) + 1
            /\ Cardinality({k \in DOMAIN trace' :
                    /\ trace'[k].op = "promise_return"
                    /\ trace'[k].promise_index = promises'[n].promise_index}) = 1

ChainTrace(a1, a2, a3, a4) ==
    << [op |-> "promise_batch_create", account_id |-> a1, res |-> 0],
       [op |-> "promise_batch_action_create_account", promise_index |-> 0],
       [op |-> "promise_batch_then", after |-> 0, account_id |-> a2, res |-> 1],
       [op |-> "promise_batch_action_create_account", promise_index |-> 1],
       [op |-> "promise_batch_create", account_id |-> a3, res |-> 2],
       [op |-> "promise_batch_action_create_account", promise_index |-> 2],
       [op |-> "promise_and", promise_a |-> 1, promise_b |-> 2, res |-> 3],
       [op |-> "promise_batch_then", after |-> 3, account_id |-> a4, res |-> 4],
       [op |-> "promise_batch_action_create_account", promise_index |-> 4] >>

(* C10: when the statement p1.then(p2).and(p3).then(p4) over four fresh    *)
(* create-account batches has ended, the host has seen: p1's account by    *)
(* promise_batch_create, p2's by promise_batch_then after p1's index, p3's *)
(* by promise_batch_create, one promise_and over (p2's, p3's) index, p4's  *)
(* by promise_batch_then after the joint's index, each batch followed by   *)
(* its one create_account action, and no other call; no promise is left    *)
(* live.                                                                   *)
C10_ChainTrace ==
    pc = 12 =>
        /\ Len(promises) = 5
        /\ Live = {}
        /\ panicked = NoPanic
        /\ trace = ChainTrace(promises[1].account_id, promises[2].account_id,
                              promises[3].account_id, promises[4].account_id)

(* the doc comment's accounts: bob, carol, dave, eva *)
C10_Witness ==
    /\ pc = 12
    /\ trace = ChainTrace("bob_near", "carol_near", "dave_near", "eva_near")

(* the step makes no host call and leaves every memoized index as it was *)
NoHostCall ==
    /\ trace' = trace
    /\ next_index' = next_index
    /\ \A n \in DOMAIN promises :
          promises'[n].promise_index = promises[n].promise_index

(* the step constructs promise n: its destructor runs, or it is an operand *)
(* of and, or it is the self of then                                       *)
Constructs(n) ==
    \/ DoDrop(n)
    \/ \E m \in DOMAIN promises : DoAnd(n, m) \/ DoAnd(m, n) \/ DoThen(n, m)

C11_Step ==
    /\ \A account_id \in Accounts :
          DoNew(account_id) =>
            /\ NoHostCall
            /\ Len(promises') = Len(promises) + 1
            /\ promises'[Len(promises')].promise_index = None
    /\ \A n \in DOMAIN promises, action \in MethodActions :
          DoAddAction(n, action) => NoHostCall
    /\ \A n \in DOMAIN promises : DoAsReturn(n) => NoHostCall
    /\ \A n \in DOMAIN promises :
          ~Registered(n) /\ promises'[n].promise_index # None => Constructs(n)
    /\ \A n \in DOMAIN promises' :
          n \notin DOMAIN promises => promises'[n].promise_index = None

(* C11: Promise::new, every action-adding method and as_return make no     *)
(* host call and leave every memoized index unchanged (a new promise       *)
(* starts without one); a promise gets its index only in a step that drops *)
(* it, names it as an operand of and, or names it as the self of then.     *)
C11_NoEagerRegistration == [][C11_Step]_vars

(* a batch built by new, an action method and as_return is still           *)
(* unregistered and the host has seen no call for it, while another        *)
(* promise has been registered by its destructor                           *)
C11_Witness ==
    /\ \E n \in Singles :
          /\ IsLive(n) /\ ~Registered(n)
          /\ promises[n].actions # <<>> /\ promises[n].should_return
    /\ \E m \in Singles :
          /\ Registered(m)
          /\ trace = <<[op |-> "promise_batch_create",
                        account_id |-> promises[m].account_id,
                        res |-> promises[m].promise_index]>>

(* host call e is made on index i: it returned i, applied an action to i *)
(* or marked i as the return value                                         *)
CallOn(e, i) ==
    \/ e.op \in RegOps /\ e.res = i
    \/ e.op \in ActionOps /\ e.promise_index = i
    \/ e.op = "promise_return" /\ e.promise_index = i

(* the positions of the host calls made in the step *)
NewPos == (Len(trace) + 1)..Len(trace')

C12_Step ==
    /\ \A self \in DOMAIN promises, other \in DOMAIN promises :
          DoThen(self, other) /\ ~IllegalNext(other) =>
            /\ promises'[self].promise_index # None
            /\ promises'[other] =
                  [promises[other] EXCEPT !.after = promises'[self].promise_index]
            /\ promises'[other].promise_index = None
            /\ \A k \in NewPos : CallOn(trace'[k], promises'[self].promise_index)
            /\ \A k \in DOMAIN trace' :
                  trace'[k].op = "promise_batch_then" =>
                    trace'[k].after # promises'[self].promise_index
    /\ \A n \in Singles :
          /\ promises[n].after # None
          /\ ~Registered(n) /\ promises'[n].promise_index # None
          => /\ Constructs(n)
             /\ \E k \in NewPos :
                   trace'[k] = [op |-> "promise_batch_then",
                                after |-> promises[n].after,
                                account_id |-> promises[n].account_id,
                                res |-> promises'[n].promise_index]

(* C12: when then(self, next) succeeds, self is registered, next's `after` *)
(* holds self's index, next has no memoized index and nothing else of it   *)
(* changed, every host call of the step is a call on self's index and no   *)
(* promise_batch_then after self's index has been made; next is registered *)
(* (by promise_batch_then after that index) only in a later step that      *)
(* constructs next itself.                                                 *)
C12_ThenLeavesNextLazy == [][C12_Step]_vars

(* after a.then(b), both with an action: a's batch is in the trace, b is   *)
(* live with a's index as `after`, unregistered, and the host has seen no  *)
(* call for b                                                              *)
C12_Witness ==
    \E a \in Singles, b \in Singles :
        /\ Registered(a) /\ promises[a].actions # <<>>
        /\ IsLive(b) /\ ~Registered(b) /\ promises[b].actions # <<>>
        /\ promises[b].after = promises[a].promise_index
        /\ Len(trace) = 1 + Len(promises[a].actions)
        /\ \A k \in DOMAIN trace : CallOn(trace[k], promises[a].promise_index)

C13_Step ==
    /\ \A self \in DOMAIN promises, other \in DOMAIN promises :
          DoAnd(self, other) =>
            LET j == Len(promises')
                a == promises'[self].promise_index
                b == promises'[other].promise_index
            IN /\ j = Len(promises) + 1
               /\ promises'[j].subtype = "Joint"
               /\ promises'[j].promise_a = a /\ a # None
               /\ promises'[j].promise_b = b /\ b # None
               /\ promises'[j].promise_index = None
               /\ \A k \in NewPos :
                     CallOn(trace'[k], a) \/ CallOn(trace'[k], b)
               /\ \A k \in DOMAIN trace' :
                     trace'[k].op = "promise_and" =>
                       ~(trace'[k].promise_a = a /\ trace'[k].promise_b = b)
    /\ \A j \in Joints :
          ~Registered(j) /\ promises'[j].promise_index # None =>
            /\ Constructs(j)
            /\ \E k \in NewPos :
                  /\ trace'[k] = [op |-> "promise_and",
                                  promise_a |-> promises[j].promise_a,
                                  promise_b |-> promises[j].promise_b,
                                  res |-> promises'[j].promise_index]
                  /\ \A m \in NewPos :
                        /\ trace'[m].op = "promise_and"
                        /\ trace'[m].promise_a = promises[j].promise_a
                        => m = k
    /\ \A j \in Joints :
          Registered(j) =>
            \A k \in NewPos :
                trace'[k].op = "promise_and" =>
                    /\ trace'[k].res # promises[j].promise_index
                    /\ trace'[k].promise_a # promises[j].promise_a

(* C13: and(self, other) makes no promise_and call for the joint it        *)
(* builds: when it returns, the new joint holds the indices of self and    *)
(* other and no memoized index, and every host call of the step is a call  *)
(* on one of the two operands; the promise_and call over the two stored    *)
(* indices is made once, in the first later step that constructs the joint *)
(* (its drop, its use as self of then or as an operand of and), and in no  *)
(* step after that.                                                        *)
C13_AndDefersJoin == [][C13_Step]_vars

(* a joint later used as the self of then: its one promise_and call was    *)
(* made there, and the batch scheduled after it is still live              *)
C13_Witness ==
    /\ panicked = NoPanic
    /\ \E j \in Joints, n \in Singles :
          /\ Registered(j)
          /\ IsLive(n) /\ promises[n].after = promises[j].promise_index
    /\ Cardinality({k \in DOMAIN trace : trace[k].op = "promise_and"}) = 1

C14_Step ==
    /\ \A n \in Singles :
          /\ promises[n].after # None => promises'[n].after = promises[n].after
          /\ promises'[n].after # promises[n].after =>
                /\ ~Registered(n)
                /\ promises'[n].promise_index = None
                /\ \E self \in DOMAIN promises :
                      /\ DoThen(self, n)
                      /\ promises'[n].after = promises'[self].promise_index
          /\ ~Registered(n) /\ promises'[n].promise_index # None =>
                /\ promises'[n].after = promises[n].after
                /\ \E k \in NewPos :
                      trace'[k] =
                        IF promises[n].after # None
                        THEN [op |-> "promise_batch_then",
                              after |-> promises[n].after,
                              account_id |-> promises[n].account_id,
                              res |-> promises'[n].promise_index]
                        ELSE [op |-> "promise_batch_create",
                              account_id |-> promises[n].account_id,
                              res |-> promises'[n].promise_index]
    /\ \A n \in DOMAIN promises' :
          n \notin DOMAIN promises /\ promises'[n].subtype = "Single" =>
            promises'[n].after = None

(* C14: the `after` field of a batch starts empty; once set it keeps its   *)
(* value in every later step; it is written only by a then step that names *)
(* the batch as `other`, while the batch has no memoized index (and the    *)
(* step leaves it without one); the step that registers the batch makes    *)
(* its promise_batch_then call with the value `after` then holds, or       *)
(* promise_batch_create if it is empty, and does not change the field.     *)
C14_AfterWrittenOnce == [][C14_Step]_vars

(* a.then(b).then(c): b's `after` was set while b was unregistered and b   *)
(* was then registered after a's index; c waits on b's index               *)
C14_Witness ==
    \E a \in Singles, b \in Singles, c \in Singles :
        /\ promises[a].after = None /\ Registered(a)
        /\ promises[b].after = promises[a].promise_index /\ Registered(b)
        /\ promises[c].after = promises[b].promise_index /\ IsLive(c)
        /\ \E k \in DOMAIN trace :
              trace[k] = [op |-> "promise_batch_then",
                          after |-> promises[a].promise_index,
                          account_id |-> promises[b].account_id,
                          res |-> promises[b].promise_index]

C15_Step ==
    \A n \in Singles, action \in MethodActions :
        DoAddAction(n, action) =>
            LET old == promises[n].actions
                new == promises'[n].actions
            IN /\ Len(new) = Len(old) + 1
               /\ new[Len(new)] = action
               /\ \A k \in 1..Len(old) : new[k] = old[k]
               /\ promises'[n].account_id = promises[n].account_id
               /\ promises'[n].after = promises[n].after
               /\ promises'[n].promise_index = promises[n].promise_index
               /\ promises'[n].should_return = promises[n].should_return
               /\ promises'[n].dropped = promises[n].dropped
               /\ \A m \in DOMAIN promises : m # n => promises'[m] = promises[m]
               /\ Len(promises') = Len(promises)
               /\ Promise_add_action(World, n, action).res = n
               /\ trace' = trace /\ next_index' = next_index
               /\ panicked' = NoPanic /\ output' = output

(* C15: an action-adding method on a promise that wraps a batch appends    *)
(* its one action at the end of the batch's action list and keeps the      *)
(* actions already there, in their order; account_id, after, promise_index *)
(* and should_return of the promise, every other promise and the host are  *)
(* unchanged, and the method returns the same promise.                     *)
C15_AppendsOneAction == [][C15_Step]_vars

(* new(b).as_return().transfer(5).create_account(): the two actions in the *)
(* order of the calls, the mark and the account kept, nothing registered   *)
C15_Witness ==
    \E n \in Singles :
        /\ IsLive(n) /\ ~Registered(n)
        /\ promises[n].actions = <<Transfer(5), CreateAccount>>
        /\ promises[n].account_id = "b"
        /\ promises[n].should_return

ThenPanics ==
    {"Cannot callback promise which is already scheduled after another",
     "Cannot callback joint promise."}

C16_Step ==
    \A self \in DOMAIN promises, other \in DOMAIN promises :
        DoThen(self, other) /\ panicked' \in ThenPanics =>
            /\ IllegalNext(other)
            /\ panicked' =
                  (IF promises[other].subtype = "Joint"
                   THEN "Cannot callback joint promise."
                   ELSE "Cannot callback promise which is already scheduled after another")
            /\ NewPos = {}
            /\ trace' = trace
            /\ next_index' = next_index
            /\ promises'[self].promise_index = promises[self].promise_index
            /\ ~promises'[self].dropped
            /\ promises[other].subtype = "Single" =>
                  promises'[other].after = promises[other].after
            /\ promises' = promises

(* C16: a then(self, next) call that ends in one of the two panics of then *)
(* has made no host call: the trace and the host's next index are as       *)
(* before the call, self has not been constructed (its memoized index is   *)
(* as before and its destructor has not run) and next's `after` is         *)
(* unchanged.                                                              *)
C16_FailedThenForcesNothing == [][C16_Step]_vars

(* then with a joint as `other` has panicked: the joint and a batch with   *)
(* an action are still unregistered, the host has seen the two operands of *)
(* the joint and nothing else                                              *)
C16_Witness ==
    /\ panicked = "Cannot callback joint promise."
    /\ \E j \in Joints, n \in Singles :
          /\ IsLive(j) /\ ~Registered(j)
          /\ IsLive(n) /\ ~Registered(n) /\ promises[n].actions # <<>>
          /\ \A k \in DOMAIN trace :
                \/ CallOn(trace[k], promises[j].promise_a)
                \/ CallOn(trace[k], promises[j].promise_b)

(* the positions, among the host calls made in the step, of the action *)
(* calls on index i                                                     *)
NewActionPos(i) ==
    {k \in NewPos : trace'[k].op \in ActionOps /\ trace'[k].promise_index = i}

C17_Step ==
    /\ \A n \in Singles, action \in MethodActions :
          DoAddAction(n, action) =>
            ~Registered(n) /\ promises'[n].promise_index = None
    /\ \A n \in Singles :
          Registered(n) =>
            /\ promises'[n].actions = promises[n].actions
            /\ NewActionPos(promises[n].promise_index) = {}
    /\ \A n \in Singles :
          ~Registered(n) /\ promises'[n].promise_index # None =>
            LET i == promises'[n].promise_index
                actions == promises[n].actions
            IN /\ promises'[n].actions = actions
               /\ \E k \in NewPos :
                     /\ trace'[k].op \in BeginOps /\ trace'[k].res = i
                     /\ NewActionPos(i) = (k + 1)..(k + Len(actions))
                     /\ \A a \in 1..Len(actions) :
                           Applies(trace'[k + a], actions[a], i)
    /\ (\A n \in DOMAIN promises' : promises'[n].dropped) =>
          \A n \in DOMAIN promises' :
              promises'[n].subtype = "Single" =>
                Cardinality({k \in DOMAIN trace' :
                    /\ trace'[k].op \in ActionOps
                    /\ trace'[k].promise_index = promises'[n].promise_index})
                  = Len(promises'[n].actions)

(* C17: an action-adding method only ever acts on a batch without a        *)
(* memoized index; the step that registers a batch applies every action of *)
(* its list, once each and in order, and from then on the list stays as it *)
(* is and no further action call is made on its index; so when every       *)
(* promise has been dropped each batch has as many action calls as actions *)
(* were appended to it.                                                    *)
C17_NoAppendAfterRegistration == [][C17_Step]_vars

(* a.then(b), b given two actions, everything dropped: b was registered    *)
(* after a's index and both its actions were applied                       *)
C17_Witness ==
    /\ panicked = NoPanic
    /\ Live = {}
    /\ \E n \in Singles :
          /\ promises[n].after # None
          /\ Len(promises[n].actions) = 2
          /\ Cardinality(ActionPos(promises[n].promise_index)) = 2

(* the positions, among the host calls made in the step, of the call that *)
(* returned index i and of the action calls on it                          *)
NewRegPos(i) ==
    {k \in NewPos :
        \/ trace'[k].op \in RegOps /\ trace'[k].res = i
        \/ trace'[k].op \in ActionOps /\ trace'[k].promise_index = i}

C18_Step ==
    \A self \in DOMAIN promises, other \in DOMAIN promises :
        DoAnd(self, other) /\ ~Registered(self) /\ ~Registered(other) =>
            LET a == promises'[self].promise_index
                b == promises'[other].promise_index
            IN /\ NewRegPos(a) # {} /\ NewRegPos(b) # {}
               /\ \A x \in NewRegPos(a), y \in NewRegPos(b) : x < y
               /\ Len(trace) + 1 \in NewRegPos(a)
               /\ promises'[Len(promises')].promise_a = a
               /\ promises'[Len(promises')].promise_b = b

(* C18: in and(self, other) with both operands unregistered, the call that *)
(* registers self (promise_batch_create, promise_batch_then or             *)
(* promise_and) is the first host call of the step and it and every action *)
(* call on self's index come before the registering call and every action  *)
(* call of other; the joint stores self's index as promise_a and other's   *)
(* as promise_b.                                                           *)
C18_AndLeftToRight == [][C18_Step]_vars

(* new(b).create_account().and(new(a).transfer(5)): the batch on b, the    *)
(* left operand, comes first in the trace and is promise_a of the joint    *)
C18_Witness ==
    /\ Len(promises) = 3
    /\ promises[3].subtype = "Joint" /\ IsLive(3)
    /\ promises[3].promise_a = 0 /\ promises[3].promise_b = 1
    /\ trace =
          << [op |-> "promise_batch_create", account_id |-> "b", res |-> 0],
             [op |-> "promise_batch_action_create_account", promise_index |-> 0],
             [op |-> "promise_batch_create", account_id |-> "a", res |-> 1],
             [op |-> "promise_batch_action_transfer", promise_index |-> 1,
              amount |-> 5] >>

(* the step marks promise n: as_return, or one of the serializers *)
Marks(n) ==
    \/ DoAsReturn(n)
    \/ DoSerialize(n)
    \/ DoSerializePromiseOrValue(<<"Promise", n>>)

C19_Step ==
    /\ \A self \in DOMAIN promises, other \in DOMAIN promises :
          DoAnd(self, other) =>
            /\ Promise_and(World, self, other).res = Len(promises')
            /\ promises'[Len(promises')].should_return = FALSE
            /\ promises'[self].should_return = promises[self].should_return
            /\ promises'[other].should_return = promises[other].should_return
    /\ \A self \in DOMAIN promises, other \in DOMAIN promises :
          DoThen(self, other) /\ panicked' = NoPanic =>
            /\ Promise_then(World, self, other).res = other
            /\ promises'[other].should_return = promises[other].should_return
            /\ promises'[self].should_return = promises[self].should_return
    /\ \A k \in NewPos :
          trace'[k].op = "promise_return" =>
            \E n \in DOMAIN promises :
                /\ promises[n].should_return
                /\ promises'[n].promise_index = trace'[k].promise_index
    /\ \A n \in DOMAIN promises :
          promises'[n].should_return # promises[n].should_return =>
            promises'[n].should_return /\ Marks(n)
    /\ \A n \in DOMAIN promises' :
          n \notin DOMAIN promises => ~promises'[n].should_return

(* C19: the promise returned by and has should_return = false whatever the *)
(* flags of its operands, then returns `other` with other's flag as it     *)
(* was, and neither changes the flag of an operand; a flag is only ever    *)
(* set, and only by as_return or a serializer on that very promise; every  *)
(* promise_return call carries the index of a promise whose flag was set   *)
(* before the step that made the call.                                     *)
C19_MarkDoesNotPropagate == [][C19_Step]_vars

(* two marked batches joined and the joint dropped: promise_return was     *)
(* called for each operand and never for the joint                         *)
C19_Witness ==
    \E j \in Joints :
        /\ Registered(j) /\ ~promises[j].should_return
        /\ ReturnPos(promises[j].promise_index) = {}
        /\ ReturnPos(promises[j].promise_a) # {}
        /\ ReturnPos(promises[j].promise_b) # {}

====
